---- MODULE Spec2Model ----
(***************************************************************************)
(* Model of the avalanche build pipeline (crates/avalanche/src/build.rs)   *)
(* and of the SharedMap primitive (crates/service/src/sync.rs).            *)
(*                                                                         *)
(* A build is one tokio task running build() -> run(); every .await is a   *)
(* suspension point, so every awaited operation is one atomic action and   *)
(* the tasks of concurrent builds interleave between them.  The file       *)
(* system (cache_dir, state_dir/work, root/assets) is shared by all tasks. *)
(***************************************************************************)
EXTENDS Integers, Sequences, FiniteSets, TLC

\* ------------------------------------------------------------------ bounds
Tasks == {1, 2}            \* concurrently running build tasks on one worker
BuildIds == {1, 2}         \* request.build_id values
MaxBuilds == 2             \* builds started in one behaviour
MaxFiles == 1              \* files one builder run writes besides the log
Contents == {1}            \* file contents the builder writes
HostAddress == "host/"     \* config.host_address

\* request.uri strings, as character sequences
Uris ==
    { <<"/", "a">>,              \* origin form, path /a
      <<"/", "b", "/", "a">>,    \* path /b/a : the mirror has a parent dir
      <<"a">>,                   \* authority form: the path is empty
      <<"a", " ", "b">> }        \* "not a uri": does not parse

\* file names, as the sequence of their dot-separated components
LogName == <<"build", "log">>
NonText == "\\xff"         \* a component that is not valid UTF-8
OutNames == { <<"pkg", "stone">>, <<NonText, "stone">> }

\* ------------------------------------------------------------------ state
VARIABLES
    pc,            \* [Tasks -> stage the task is about to execute]
    request,       \* [Tasks -> PackageBuild]
    mirror_dir,    \* [Tasks -> path below cache_dir]
    error,         \* [Tasks -> BOOLEAN] : build_recipe(..).err() is Some
    collectables,  \* [Tasks -> set of Collectable] : local of run()
    result,        \* [Tasks -> "pending" | "Ok" | "Err"] : value of run()
    git_op,        \* [Tasks -> git command the sync step has launched]
    sent,          \* [Tasks -> Seq of outcome messages handed to the client]
    status,        \* [Tasks -> "none" | "Ok" | "Err"] : what client.send returned
    trace,         \* [Tasks -> Seq of stages executed by the current build]
    started,       \* number of builds started
    cache,         \* directories existing below cache_dir
    mirrors,       \* those of them that are git mirrors
    regs,          \* mirrors holding a worktree registration, with its owner
    work,          \* state_dir/work
    assets,        \* [BuildIds -> root/assets/<build_id>]
    map,           \* SharedMap: the HashMap behind the Mutex
    lock,          \* SharedMap: holder of the Mutex, 0 when free
    mpc,           \* SharedMap: [Clients -> position]
    mop,           \* SharedMap: [Clients -> operation in progress]
    mret,          \* SharedMap: [Clients -> value the last remove returned]
    hist           \* SharedMap: operations in lock-acquisition order

taskVars == <<pc, request, mirror_dir, git_op, error, collectables, result, sent,
              status, trace, started>>
fsVars == <<cache, mirrors, regs, work, assets>>
mapVars == <<map, lock, mpc, mop, mret, hist>>
vars == <<taskVars, fsVars, mapVars>>

\* ------------------------------------------------------- pure operations
\* request.uri.parse::<Uri>(): a string with a space is rejected; an origin
\* form string is its own path; an authority form string has an empty path
UriParse(s) ==
    IF s = <<>> \/ \E i \in 1..Len(s) : s[i] = " "
    THEN [ok |-> FALSE, path |-> <<>>]
    ELSE [ok |-> TRUE, path |-> IF s[1] = "/" THEN s ELSE <<>>]

\* StripPrefix falling back to the path itself when there is no prefix
StripPrefixOrWhole(p) ==
    IF p # <<>> /\ p[1] = "/"
    THEN [some |-> TRUE, rest |-> Tail(p)]
    ELSE [some |-> TRUE, rest |-> p]

\* uri.path().strip_prefix("/")
StripPrefix(p) ==
    IF p # <<>> /\ p[1] = "/"
    THEN [some |-> TRUE, rest |-> Tail(p)]
    ELSE [some |-> FALSE, rest |-> <<>>]

\* Path::parent of a path below cache_dir (<<>> is cache_dir itself)
Parent(p) ==
    LET cuts == {i \in 1..Len(p) : p[i] = "/"}
    IN  IF cuts = {} THEN <<>>
        ELSE SubSeq(p, 1, (CHOOSE i \in cuts : \A j \in cuts : j <= i) - 1)

\* the directories fs::create_dir_all(p) makes sure exist
DirAll(p) ==
    {p} \cup {SubSeq(p, 1, i - 1) : i \in {j \in 1..Len(p) : p[j] = "/"}}

\* AssetDir without the build_id component: one directory for every build
AssetDirShared(req) == CHOOSE b \in BuildIds : TRUE

\* state.root.join("assets").join(request.build_id.to_string())
AssetDir(req) == req.build_id

\* str::ends_with(".<suffix>") on a name given by its components
EndsWith(name, suffix) ==
    /\ Len(name) > Len(suffix)
    /\ SubSeq(name, Len(name) - Len(suffix) + 1, Len(name)) = suffix

\* path.file_name().and_then(|name| name.to_str()) is Some
IsText(name) == \A i \in 1..Len(name) : name[i] # NonText

\* Kind taking every name that ends in .gz for a log
KindAnyGz(name) ==
    IF EndsWith(name, <<"bin">>) THEN "BinaryManifest"
    ELSE IF EndsWith(name, <<"jsonc">>) THEN "JsonManifest"
    ELSE IF EndsWith(name, <<"gz">>) THEN "Log"
    ELSE IF EndsWith(name, <<"stone">>) THEN "Package"
    ELSE "Unknown"

\* collectable::Kind chosen by the if / else-if chain of scan_collectables
Kind(name) ==
    IF EndsWith(name, <<"bin">>) THEN "BinaryManifest"
    ELSE IF EndsWith(name, <<"jsonc">>) THEN "JsonManifest"
    ELSE IF EndsWith(name, <<"log", "gz">>) THEN "Log"
    ELSE IF EndsWith(name, <<"stone">>) THEN "Package"
    ELSE "Unknown"

\* hex::encode(Sha256(content)) : a digest, injective on the modelled contents
Sha256(data) == (data * 37 + 11) % 101

\* GzEncoder at level 9: the compressed bytes differ from the plain ones
Gz(data) == data + 50

\* format!("{file}.gz")
GzName(name) == Append(name, "gz")

\* format!("{host_address}assets/{build_id}/{file_name}")
AssetUri(host, build_id, name) == <<host, "assets", build_id, name>>

MkCollectable(build_id, host, f) ==
    [kind |-> Kind(f.name),
     uri |-> AssetUri(host, build_id, f.name),
     sha256sum |-> Sha256(f.data)]

\* the Vec scan_collectables returns for a directory listing, as a set
\* (read_dir yields the entries in no specified order)
ScanResult(build_id, host, files) ==
    {MkCollectable(build_id, host, f) : f \in {g \in files : IsText(g.name)}}

\* a directory: whether it exists and the files in it
NoDir == [exists |-> FALSE, files |-> {}]
EmptyDir == [exists |-> TRUE, files |-> {}]

FileNamed(dir, name) == {f \in dir.files : f.name = name}
WithFile(dir, name, data) ==
    [dir EXCEPT !.files = {f \in @ : f.name # name} \cup {[name |-> name, data |-> data]}]
WithoutFile(dir, name) == [dir EXCEPT !.files = {f \in @ : f.name # name}]

\* state_dir/work : the directory, its source/ subdirectory, the build whose
\* checkout fills source/ and the build whose avalanche.yaml is in etc/
NoWork == [exists |-> FALSE, source |-> FALSE, checkout |-> 0, config |-> 0]

\* what one run of the builder may leave in asset_dir besides the log
BuilderOutputs ==
    {fs \in SUBSET {[name |-> n, data |-> d] : n \in OutNames, d \in Contents} :
        /\ Cardinality(fs) <= MaxFiles
        /\ \A f, g \in fs : f.name = g.name => f = g}

NoRequest == [build_id |-> 0, uri |-> <<>>]

\* ------------------------------------------------------------------ init
Clients == {1, 2, 3}       \* tasks holding a clone of one SharedMap
Keys == {"k1", "k2"}
Values == {1, 2}
None == 0                  \* Option::None
MaxOps == 4                \* insert/remove calls in one behaviour

InitMap ==
    /\ map = [k \in Keys |-> None]
    /\ lock = 0
    /\ mpc = [c \in Clients |-> "idle"]
    /\ mop = [c \in Clients |-> [op |-> "none", key |-> "k1", value |-> None]]
    /\ mret = [c \in Clients |-> None]
    /\ hist = <<>>

InitBuild ==
    /\ pc = [t \in Tasks |-> "idle"]
    /\ request = [t \in Tasks |-> NoRequest]
    /\ mirror_dir = [t \in Tasks |-> <<>>]
    /\ error = [t \in Tasks |-> FALSE]
    /\ collectables = [t \in Tasks |-> {}]
    /\ result = [t \in Tasks |-> "pending"]
    /\ git_op = [t \in Tasks |-> "none"]
    /\ sent = [t \in Tasks |-> <<>>]
    /\ status = [t \in Tasks |-> "none"]
    /\ trace = [t \in Tasks |-> <<>>]
    /\ started = 0
    /\ cache = {<<>>}
    /\ mirrors = {}
    /\ regs = {}
    /\ work = NoWork
    /\ assets = [b \in BuildIds |-> NoDir]

Init == InitBuild /\ InitMap

\* ------------------------------------------------------- build pipeline
Stage(t, name) == trace' = [trace EXCEPT ![t] = Append(@, name)]
Goto(t, next) == pc' = [pc EXCEPT ![t] = next]

\* Abort with build() returning without a report
AbortSilent(t) ==
    /\ pc' = [pc EXCEPT ![t] = "done"]
    /\ result' = [result EXCEPT ![t] = "Err"]

\* the ? operator on an Err: run() returns Err, its locals are dropped
Abort(t) ==
    /\ pc' = [pc EXCEPT ![t] = "report"]
    /\ result' = [result EXCEPT ![t] = "Err"]

\* build ids of the builds other tasks are running
InFlight(t) == {request[u].build_id : u \in {v \in Tasks \ {t} : pc[v] # "idle"}}

\* the task handler spawns build(request, ..) on the lowest free task; the
\* orchestrator hands out task ids in increasing order, may hand out an
\* earlier one again, and has one build running per task id
Start(t) ==
    /\ pc[t] = "idle"
    /\ \A u \in Tasks : u < t => pc[u] # "idle"
    /\ started < MaxBuilds
    /\ started' = started + 1
    /\ \E b \in {i \in BuildIds : i <= started + 1} \ InFlight(t), u \in Uris :
          request' = [request EXCEPT ![t] = [build_id |-> b, uri |-> u]]
    /\ pc' = [pc EXCEPT ![t] = "resolve"]
    /\ mirror_dir' = [mirror_dir EXCEPT ![t] = <<>>]
    /\ error' = [error EXCEPT ![t] = FALSE]
    /\ collectables' = [collectables EXCEPT ![t] = {}]
    /\ result' = [result EXCEPT ![t] = "pending"]
    /\ git_op' = [git_op EXCEPT ![t] = "none"]
    /\ sent' = [sent EXCEPT ![t] = <<>>]
    /\ status' = [status EXCEPT ![t] = "none"]
    /\ trace' = [trace EXCEPT ![t] = <<>>]
    /\ UNCHANGED <<fsVars, mapVars>>

\* run(): parse the uri and derive mirror_dir
Resolve(t) ==
    /\ pc[t] = "resolve"
    /\ Stage(t, "resolve")
    /\ LET uri == UriParse(request[t].uri)
           rel == StripPrefix(uri.path)
       IN  IF uri.ok /\ rel.some
           THEN /\ mirror_dir' = [mirror_dir EXCEPT ![t] = rel.rest]
                /\ Goto(t, "mirror_parent")
                /\ UNCHANGED result
           ELSE Abort(t) /\ UNCHANGED mirror_dir
    /\ UNCHANGED <<request, git_op, error, collectables, sent, status, started,
                   fsVars, mapVars>>

\* ensure_dir_exists(mirror_dir.parent())
MirrorParent(t) ==
    /\ pc[t] = "mirror_parent"
    /\ Stage(t, "mirror_parent")
    /\ \/ /\ cache' = cache \cup DirAll(Parent(mirror_dir[t]))
          /\ Goto(t, "work_dir")
          /\ UNCHANGED result
       \/ Abort(t) /\ UNCHANGED cache
    /\ UNCHANGED <<request, mirror_dir, git_op, error, collectables, sent, status, started,
                   mirrors, regs, work, assets, mapVars>>

\* RecreateDir without the removal: create_dir_all on whatever is there
RecreateDirKeeping(dir) == [dir EXCEPT !.exists = TRUE]

\* recreate_dir(path): remove_dir_all if the path exists, then create_dir_all;
\* the directory after a successful call
RecreateDir(dir) == EmptyDir

\* recreate_dir(&work_dir)
RecreateWorkDir(t) ==
    /\ pc[t] = "work_dir"
    /\ Stage(t, "work_dir")
    /\ \/ /\ work' = [NoWork EXCEPT !.exists = RecreateDir(work).exists]
          /\ Goto(t, "worktree_dir")
          /\ UNCHANGED result
       \/ \* remove_dir_all fails
          work.exists /\ Abort(t) /\ UNCHANGED work
       \/ \* create_dir_all fails after the removal
          Abort(t) /\ work' = NoWork
    /\ UNCHANGED <<request, mirror_dir, git_op, error, collectables, sent, status, started,
                   cache, mirrors, regs, assets, mapVars>>

\* ensure_dir_exists(worktree_dir)
WorktreeDir(t) ==
    /\ pc[t] = "worktree_dir"
    /\ Stage(t, "worktree_dir")
    /\ \/ /\ work' = [work EXCEPT !.exists = TRUE, !.source = TRUE]
          /\ Goto(t, "asset_dir")
          /\ UNCHANGED result
       \/ Abort(t) /\ UNCHANGED work
    /\ UNCHANGED <<request, mirror_dir, git_op, error, collectables, sent, status, started,
                   cache, mirrors, regs, assets, mapVars>>

\* recreate_dir(&asset_dir)
RecreateAssetDir(t) ==
    /\ pc[t] = "asset_dir"
    /\ Stage(t, "asset_dir")
    /\ LET a == AssetDir(request[t])
       IN  \/ /\ assets' = [assets EXCEPT ![a] = RecreateDir(@)]
              /\ Goto(t, "sync")
              /\ UNCHANGED result
           \/ \* remove_dir_all fails
              assets[a].exists /\ Abort(t) /\ UNCHANGED assets
           \/ \* create_dir_all fails after the removal
              Abort(t) /\ assets' = [assets EXCEPT ![a] = NoDir]
    /\ UNCHANGED <<request, mirror_dir, git_op, error, collectables, sent, status, started,
                   cache, mirrors, regs, work, mapVars>>

\* SyncCheck waiting while another build is working on the same mirror
SyncCheckGuarded(t) ==
    /\ pc[t] = "sync"
    /\ \A u \in Tasks \ {t} :
          ~(pc[u] \in {"sync_wait", "checkout"} /\ mirror_dir[u] = mirror_dir[t])
    /\ Stage(t, "sync")
    /\ git_op' = [git_op EXCEPT ![t] =
                     IF mirror_dir[t] \in cache THEN "remote_update" ELSE "mirror"]
    /\ Goto(t, "sync_wait")
    /\ UNCHANGED <<request, mirror_dir, error, collectables, result, sent, status,
                   started, fsVars, mapVars>>

\* SyncCheck without the test: the repository is cloned every time
SyncCheckAlwaysMirror(t) ==
    /\ pc[t] = "sync"
    /\ Stage(t, "sync")
    /\ git_op' = [git_op EXCEPT ![t] = "mirror"]
    /\ Goto(t, "sync_wait")
    /\ UNCHANGED <<request, mirror_dir, error, collectables, result, sent, status,
                   started, fsVars, mapVars>>

\* if mirror_dir.exists() { git::remote_update } else { git::mirror } : the
\* test and the launch of the chosen git command
SyncCheck(t) ==
    /\ pc[t] = "sync"
    /\ Stage(t, "sync")
    /\ git_op' = [git_op EXCEPT ![t] =
                     IF mirror_dir[t] \in cache THEN "remote_update" ELSE "mirror"]
    /\ Goto(t, "sync_wait")
    /\ UNCHANGED <<request, mirror_dir, error, collectables, result, sent, status,
                   started, fsVars, mapVars>>

\* git::remote_update(dest): fetches into an existing mirror
RemoteUpdate(dest) ==
    dest \in mirrors /\ UNCHANGED <<cache, mirrors>>

\* git::mirror(uri, dest): creates a bare mirror clone at dest
Mirror(dest) ==
    /\ cache' = cache \cup DirAll(dest)
    /\ mirrors' = mirrors \cup {dest}

\* SyncWait with the result of the git command ignored
SyncWaitIgnoringFailure(t) ==
    /\ pc[t] = "sync_wait"
    /\ Stage(t, "sync_wait")
    /\ \/ IF git_op[t] = "remote_update"
          THEN RemoteUpdate(mirror_dir[t])
          ELSE Mirror(mirror_dir[t])
       \/ UNCHANGED <<cache, mirrors>>
    /\ Goto(t, "checkout")
    /\ UNCHANGED <<request, mirror_dir, git_op, error, collectables, result, sent,
                   status, started, regs, work, assets, mapVars>>

\* SyncWait removing mirror_dir when the git command failed
SyncWaitCleaningUp(t) ==
    /\ pc[t] = "sync_wait"
    /\ Stage(t, "sync_wait")
    /\ \/ /\ IF git_op[t] = "remote_update"
             THEN RemoteUpdate(mirror_dir[t])
             ELSE Mirror(mirror_dir[t])
          /\ Goto(t, "checkout")
          /\ UNCHANGED result
       \/ /\ Abort(t)
          /\ cache' = cache \ {mirror_dir[t]}
          /\ mirrors' = mirrors \ {mirror_dir[t]}
    /\ UNCHANGED <<request, mirror_dir, git_op, error, collectables, sent, status,
                   started, regs, work, assets, mapVars>>

\* the launched git command completes
SyncWait(t) ==
    /\ pc[t] = "sync_wait"
    /\ Stage(t, "sync_wait")
    /\ \/ /\ IF git_op[t] = "remote_update"
             THEN RemoteUpdate(mirror_dir[t])
             ELSE Mirror(mirror_dir[t])
          /\ Goto(t, "checkout")
          /\ UNCHANGED result
       \/ Abort(t) /\ UNCHANGED <<cache, mirrors>>
    /\ UNCHANGED <<request, mirror_dir, git_op, error, collectables, sent, status,
                   started, regs, work, assets, mapVars>>

\* git::checkout_worktree(mirror_dir, worktree_dir, commit_ref): registers
\* worktree_dir in the mirror and fills it; refuses a non-empty directory
CheckoutWorktree(dest, b) ==
    /\ dest \in mirrors
    /\ work.checkout = 0
    /\ work' = [work EXCEPT !.exists = TRUE, !.source = TRUE, !.checkout = b]
    /\ regs' = {r \in regs : r.mirror # dest} \cup {[mirror |-> dest, owner |-> b]}

Checkout(t) ==
    /\ pc[t] = "checkout"
    /\ Stage(t, "checkout")
    /\ \/ /\ CheckoutWorktree(mirror_dir[t], request[t].build_id)
          /\ Goto(t, "config")
          /\ UNCHANGED result
       \/ Abort(t) /\ UNCHANGED <<work, regs>>
    /\ UNCHANGED <<request, mirror_dir, git_op, error, collectables, sent, status,
                   started, cache, mirrors, assets, mapVars>>

\* create_boulder_config(&work_dir, &request.remotes): create
\* work_dir/etc/boulder/profile.d and write avalanche.yaml into it
CreateBoulderConfig(t) ==
    /\ pc[t] = "config"
    /\ Stage(t, "config")
    /\ \/ /\ work' = [work EXCEPT !.exists = TRUE, !.config = request[t].build_id]
          /\ Goto(t, "build")
          /\ UNCHANGED result
       \/ \* the directory cannot be created
          Abort(t) /\ UNCHANGED work
       \/ \* the directory is created, the write fails
          Abort(t) /\ work' = [work EXCEPT !.exists = TRUE]
    /\ UNCHANGED <<request, mirror_dir, git_op, error, collectables, sent, status,
                   started, cache, mirrors, regs, assets, mapVars>>

\* what asset_dir holds after the builder ran with -o asset_dir and its
\* stdout/stderr on the log file
BuilderRan(dir, out, log) ==
    [dir EXCEPT !.files =
        {f \in @ : f.name # LogName /\ \A g \in out : g.name # f.name}
        \cup out \cup {[name |-> LogName, data |-> log]}]

\* BuildRecipe with ? in place of .err(): a builder failure ends run()
BuildRecipeAborting(t) ==
    /\ pc[t] = "build"
    /\ Stage(t, "build")
    /\ LET a == AssetDir(request[t])
       IN  \/ Abort(t) /\ UNCHANGED <<error, assets>>
           \/ /\ assets[a].exists
              /\ \E out \in BuilderOutputs, log \in Contents :
                    assets' = [assets EXCEPT ![a] = BuilderRan(@, out, log)]
              /\ \/ Goto(t, "compress") /\ UNCHANGED <<error, result>>
                 \/ Abort(t) /\ UNCHANGED error
    /\ UNCHANGED <<request, mirror_dir, git_op, collectables, sent, status,
                   started, cache, mirrors, regs, work, mapVars>>

\* BuildRecipe followed by the scan, the log compression left out
BuildRecipeThenScan(t) ==
    /\ pc[t] = "build"
    /\ Stage(t, "build")
    /\ Goto(t, "scan")
    /\ UNCHANGED result
    /\ LET a == AssetDir(request[t])
       IN  \/ /\ error' = [error EXCEPT ![t] = TRUE]
              /\ UNCHANGED assets
           \/ /\ assets[a].exists
              /\ \E out \in BuilderOutputs, log \in Contents, exit_ok \in BOOLEAN :
                    /\ error' = [error EXCEPT ![t] = ~exit_ok]
                    /\ assets' = [assets EXCEPT ![a] = BuilderRan(@, out, log)]
    /\ UNCHANGED <<request, mirror_dir, git_op, collectables, sent, status,
                   started, cache, mirrors, regs, work, mapVars>>

\* build_recipe(..).await.err(): File::create(log_path), then
\* service::process::execute("sudo", .. boulder build ..); the error is
\* captured and run() carries on
BuildRecipe(t) ==
    /\ pc[t] = "build"
    /\ Stage(t, "build")
    /\ Goto(t, "compress")
    /\ UNCHANGED result
    /\ LET a == AssetDir(request[t])
       IN  \/ \* the log file cannot be created
              /\ error' = [error EXCEPT ![t] = TRUE]
              /\ UNCHANGED assets
           \/ \* the process cannot be spawned
              /\ assets[a].exists
              /\ error' = [error EXCEPT ![t] = TRUE]
              /\ assets' = [assets EXCEPT ![a] = WithFile(@, LogName, 0)]
           \/ \* the builder runs and exits, zero or non-zero
              /\ assets[a].exists
              /\ \E out \in BuilderOutputs, log \in Contents, exit_ok \in BOOLEAN :
                    /\ error' = [error EXCEPT ![t] = ~exit_ok]
                    /\ assets' = [assets EXCEPT ![a] = BuilderRan(@, out, log)]
    /\ UNCHANGED <<request, mirror_dir, git_op, collectables, sent, status,
                   started, cache, mirrors, regs, work, mapVars>>

\* compress_file(build.log) on the blocking pool: open the plain file, create
\* build.log.gz, copy through the encoder, remove the plain file
\* CompressFile without the removal of the plain file
CompressFileKeepPlain(dir, name) ==
    LET plain == CHOOSE f \in FileNamed(dir, name) : TRUE
    IN  WithFile(dir, GzName(name), Gz(plain.data))

CompressFile(dir, name) ==
    LET plain == CHOOSE f \in FileNamed(dir, name) : TRUE
    IN  WithoutFile(WithFile(dir, GzName(name), Gz(plain.data)), name)

\* Compress with the result of the blocking task ignored
CompressIgnoringFailure(t) ==
    /\ pc[t] = "compress"
    /\ Stage(t, "compress")
    /\ Goto(t, "scan")
    /\ LET a == AssetDir(request[t])
       IN  \/ /\ FileNamed(assets[a], LogName) # {}
              /\ assets' = [assets EXCEPT ![a] = CompressFile(@, LogName)]
           \/ UNCHANGED assets
    /\ UNCHANGED <<request, mirror_dir, git_op, error, collectables, result, sent,
                   status, started, cache, mirrors, regs, work, mapVars>>

Compress(t) ==
    /\ pc[t] = "compress"
    /\ Stage(t, "compress")
    /\ LET a == AssetDir(request[t])
       IN  \/ /\ FileNamed(assets[a], LogName) # {}
              /\ assets' = [assets EXCEPT ![a] = CompressFile(@, LogName)]
              /\ Goto(t, "scan")
              /\ UNCHANGED result
           \/ \* the blocking task is lost, or open/create fails
              Abort(t) /\ UNCHANGED assets
           \/ \* the copy or the removal of the plain file fails
              /\ FileNamed(assets[a], LogName) # {}
              /\ assets' = [assets EXCEPT ![a] = WithFile(@, GzName(LogName), Gz(0))]
              /\ Abort(t)
    /\ UNCHANGED <<request, mirror_dir, git_op, error, collectables, sent, status,
                   started, cache, mirrors, regs, work, mapVars>>

\* scan_collectables(build_id, host_address, asset_dir)
Scan(t) ==
    /\ pc[t] = "scan"
    /\ Stage(t, "scan")
    /\ LET a == AssetDir(request[t])
       IN  \/ /\ assets[a].exists
              /\ collectables' = [collectables EXCEPT ![t] =
                    ScanResult(request[t].build_id, HostAddress, assets[a].files)]
              /\ Goto(t, "teardown")
              /\ UNCHANGED result
           \/ \* read_dir, the uri parse or a digest fails
              Abort(t) /\ UNCHANGED collectables
    /\ UNCHANGED <<request, mirror_dir, git_op, error, sent, status, started,
                   fsVars, mapVars>>

\* git::remove_worktree(mirror_dir, worktree_dir): drops the registration and
\* the files of the worktree, leaving the mirror untouched
RemoveWorktree(dest, b) ==
    /\ regs' = {r \in regs : ~(r.mirror = dest /\ r.owner = b)}
    /\ work' = IF work.checkout = b
               THEN [work EXCEPT !.source = FALSE, !.checkout = 0]
               ELSE work

\* Teardown clearing the build's asset_dir along with the worktree
TeardownRemovingAssets(t) ==
    /\ pc[t] = "teardown"
    /\ Stage(t, "teardown")
    /\ \/ /\ RemoveWorktree(mirror_dir[t], request[t].build_id)
          /\ assets' = [assets EXCEPT ![AssetDir(request[t])] = NoDir]
          /\ pc' = [pc EXCEPT ![t] = "report"]
          /\ result' = [result EXCEPT ![t] = "Ok"]
       \/ Abort(t) /\ UNCHANGED <<regs, work, assets>>
    /\ UNCHANGED <<request, mirror_dir, git_op, error, collectables, sent, status,
                   started, cache, mirrors, mapVars>>

\* remove the worktree, then return Ok((error, collectables))
Teardown(t) ==
    /\ pc[t] = "teardown"
    /\ Stage(t, "teardown")
    /\ \/ /\ RemoveWorktree(mirror_dir[t], request[t].build_id)
          /\ pc' = [pc EXCEPT ![t] = "report"]
          /\ result' = [result EXCEPT ![t] = "Ok"]
       \/ Abort(t) /\ UNCHANGED <<regs, work>>
    /\ UNCHANGED <<request, mirror_dir, git_op, error, collectables, sent, status,
                   started, cache, mirrors, assets, mapVars>>

\* Outcome with the Ok((Some(e), _)) arm sending BuildSucceeded
OutcomeErrorAsSuccess(t) ==
    IF result[t] = "Ok"
    THEN [kind |-> "BuildSucceeded", task_id |-> request[t].build_id,
          collectables |-> collectables[t]]
    ELSE [kind |-> "BuildFailed", task_id |-> request[t].build_id,
          collectables |-> {}]

\* Outcome with the Err arm sending the collectables run() had computed
OutcomeKeepCollectables(t) ==
    [kind |-> IF result[t] = "Ok" /\ ~error[t] THEN "BuildSucceeded" ELSE "BuildFailed",
     task_id |-> request[t].build_id,
     collectables |-> collectables[t]]

\* build(): the outcome message for the value run() returned
Outcome(t) ==
    IF result[t] = "Ok" /\ ~error[t]
    THEN [kind |-> "BuildSucceeded", task_id |-> request[t].build_id,
          collectables |-> collectables[t]]
    ELSE IF result[t] = "Ok"
    THEN [kind |-> "BuildFailed", task_id |-> request[t].build_id,
          collectables |-> collectables[t]]
    ELSE [kind |-> "BuildFailed", task_id |-> request[t].build_id,
          collectables |-> {}]

\* Report sending the message again when the delivery failed
ReportRetrying(t) ==
    /\ pc[t] = "report"
    /\ sent' = [sent EXCEPT ![t] = Append(@, Outcome(t))]
    /\ \/ /\ status' = [status EXCEPT ![t] = "Ok"]
          /\ Goto(t, "done")
          /\ request' = [request EXCEPT ![t].uri = <<>>]
          /\ mirror_dir' = [mirror_dir EXCEPT ![t] = <<>>]
          /\ git_op' = [git_op EXCEPT ![t] = "none"]
          /\ error' = [error EXCEPT ![t] = FALSE]
          /\ collectables' = [collectables EXCEPT ![t] = {}]
          /\ result' = [result EXCEPT ![t] = "pending"]
          /\ trace' = [trace EXCEPT ![t] = <<>>]
       \/ /\ Len(sent[t]) < 2
          /\ status' = [status EXCEPT ![t] = "Err"]
          /\ UNCHANGED <<pc, request, mirror_dir, git_op, error, collectables,
                         result, trace>>
    /\ UNCHANGED <<started, fsVars, mapVars>>

\* build(): the match on run(..).await hands the outcome message to the
\* client; run()'s value is moved into the message and request was moved
\* into run(), task_id is what build() keeps; a delivery error is logged
Report(t) ==
    /\ pc[t] = "report"
    /\ sent' = [sent EXCEPT ![t] = Append(@, Outcome(t))]
    /\ \E s \in {"Ok", "Err"} : status' = [status EXCEPT ![t] = s]
    /\ Goto(t, "done")
    /\ request' = [request EXCEPT ![t].uri = <<>>]
    /\ mirror_dir' = [mirror_dir EXCEPT ![t] = <<>>]
    /\ git_op' = [git_op EXCEPT ![t] = "none"]
    /\ error' = [error EXCEPT ![t] = FALSE]
    /\ collectables' = [collectables EXCEPT ![t] = {}]
    /\ result' = [result EXCEPT ![t] = "pending"]
    /\ trace' = [trace EXCEPT ![t] = <<>>]
    /\ UNCHANGED <<started, fsVars, mapVars>>

\* build() returns: the task ends
Return(t) ==
    /\ pc[t] = "done"
    /\ pc' = [pc EXCEPT ![t] = "idle"]
    /\ request' = [request EXCEPT ![t] = NoRequest]
    /\ sent' = [sent EXCEPT ![t] = <<>>]
    /\ status' = [status EXCEPT ![t] = "none"]
    /\ UNCHANGED <<mirror_dir, git_op, error, collectables, result, trace,
                   started, fsVars, mapVars>>

Step(t) ==
    \/ Resolve(t) \/ MirrorParent(t) \/ RecreateWorkDir(t) \/ WorktreeDir(t)
    \/ RecreateAssetDir(t) \/ SyncCheck(t) \/ SyncWait(t) \/ Checkout(t)
    \/ CreateBoulderConfig(t) \/ BuildRecipe(t)
    \/ Compress(t) \/ Scan(t) \/ Teardown(t) \/ Report(t) \/ Return(t)

Next == \E t \in Tasks : Start(t) \/ Step(t)

Spec == Init /\ [][Next]_vars

\* the runtime keeps polling every spawned build task; each task runs one
\* build, the builds running side by side
NextOnce == \E t \in Tasks : (started < Cardinality(Tasks) /\ Start(t)) \/ Step(t)

FairSpec == Init /\ [][NextOnce]_vars /\ \A t \in Tasks : WF_vars(Step(t))

\* ---------------------------------------------------------------- SharedMap
\* HashMapInsert keeping the value of a key that is already present
HashMapInsertIfAbsent(m, k, v) == IF m[k] = None THEN [m EXCEPT ![k] = v] ELSE m

\* HashMap::insert(key, value)
HashMapInsert(m, k, v) == [m EXCEPT ![k] = v]

\* HashMapRemove reading the value and leaving the entry in place
HashMapRemoveKeeping(m, k) == [map |-> m, ret |-> m[k]]

\* HashMap::remove(key): the map without the key, and the value it held
HashMapRemove(m, k) == [map |-> [m EXCEPT ![k] = None], ret |-> m[k]]

\* a task calls insert(key, value) or remove(&key) on its clone
MapCall(c) ==
    /\ mpc[c] = "idle"
    /\ Len(hist) + Cardinality({d \in Clients : mpc[d] # "idle"}) < MaxOps
    /\ \E k \in Keys :
          \/ \E v \in Values :
                mop' = [mop EXCEPT ![c] = [op |-> "insert", key |-> k, value |-> v]]
          \/ mop' = [mop EXCEPT ![c] = [op |-> "remove", key |-> k, value |-> None]]
    /\ mpc' = [mpc EXCEPT ![c] = "lock"]
    /\ mret' = [mret EXCEPT ![c] = None]
    /\ UNCHANGED <<map, lock, hist, taskVars, fsVars>>

\* self.0.lock().await : the Mutex is granted to one waiting task
MapLock(c) ==
    /\ mpc[c] = "lock"
    /\ lock = 0
    /\ lock' = c
    /\ mpc' = [mpc EXCEPT ![c] = "locked"]
    /\ UNCHANGED <<map, mop, mret, hist, taskVars, fsVars>>

\* SharedMap::insert: the guard's insert, then the guard is dropped
MapInsert(c) ==
    /\ mpc[c] = "locked" /\ lock = c /\ mop[c].op = "insert"
    /\ map' = HashMapInsert(map, mop[c].key, mop[c].value)
    /\ hist' = Append(hist, [op |-> "insert", key |-> mop[c].key,
                             value |-> mop[c].value, by |-> c])
    /\ lock' = 0
    /\ mpc' = [mpc EXCEPT ![c] = "idle"]
    /\ UNCHANGED <<mop, mret, taskVars, fsVars>>

\* SharedMap::remove: the guard's remove, then the guard is dropped
MapRemove(c) ==
    /\ mpc[c] = "locked" /\ lock = c /\ mop[c].op = "remove"
    /\ LET r == HashMapRemove(map, mop[c].key)
       IN  /\ map' = r.map
           /\ mret' = [mret EXCEPT ![c] = r.ret]
           /\ hist' = Append(hist, [op |-> "remove", key |-> mop[c].key,
                                    value |-> r.ret, by |-> c])
    /\ lock' = 0
    /\ mpc' = [mpc EXCEPT ![c] = "idle"]
    /\ UNCHANGED <<mop, taskVars, fsVars>>

NextMap == \E c \in Clients : MapCall(c) \/ MapLock(c) \/ MapInsert(c) \/ MapRemove(c)

SpecMap == Init /\ [][NextMap]_vars

\* ------------------------------------------------------------- properties
AllStages ==
    <<"resolve", "mirror_parent", "work_dir", "worktree_dir", "asset_dir", "sync",
      "sync_wait", "checkout", "config", "build", "compress", "scan", "teardown">>
EarlyStages ==
    {"resolve", "mirror_parent", "work_dir", "worktree_dir", "asset_dir", "sync",
     "sync_wait", "checkout", "config"}
LateStages == {"build", "compress", "scan", "teardown"}

Last(seq) == seq[Len(seq)]
Ran(t) == {trace[t][i] : i \in 1..Len(trace[t])}

\* task t hands its outcome message to the client in this step
Reports(t) == pc[t] = "report" /\ pc'[t] = "done"
Message(t) == sent[t][1]

\* C1: the message build() sends is BuildSucceeded exactly when run() ran
\* every stage and returned Ok with no captured builder error, BuildFailed in
\* every other case, and it is the only message of that build
C1_OutcomeMatchesRun ==
    [][\A t \in Tasks : Reports(t) =>
          /\ sent[t] = <<>> /\ Len(sent'[t]) = 1
          /\ Message(t)'.kind \in {"BuildSucceeded", "BuildFailed"}
          /\ Message(t)'.kind = "BuildSucceeded"
                <=> (result[t] = "Ok" /\ ~error[t] /\ trace[t] = AllStages)
          /\ result[t] \in {"Ok", "Err"}]_vars

C1_Witness ==
    \E t \in Tasks : pc[t] = "done" /\ Message(t).kind = "BuildSucceeded"

\* C2: a build that has started eventually hands the client an outcome
\* message carrying task_id = request.build_id, whichever stage fails
C2_ReportEventuallySent ==
    \A t \in Tasks :
        (pc[t] = "resolve")
            ~> (/\ pc[t] = "done" /\ Len(sent[t]) = 1
                /\ Message(t).task_id = request[t].build_id
                /\ request[t].build_id \in BuildIds)

C2_Witness ==
    \E t \in Tasks : /\ pc[t] = "done" /\ Len(sent[t]) = 1
                     /\ Message(t).kind = "BuildFailed"
                     /\ Message(t).task_id = request[t].build_id
                     /\ Message(t).collectables = {}

\* the Log collectable of build b's compressed log holding data
LogCollectable(b, data) ==
    [kind |-> "Log", uri |-> <<HostAddress, "assets", b, <<"build", "log", "gz">>>>,
     sha256sum |-> Sha256(data)]

\* C3: a builder failure does not end run(): compression, scan and teardown
\* follow in that order, and when they succeed the report is BuildFailed with
\* the Log collectable of build.log.gz, alone if asset_dir holds nothing else
C3_BuilderFailureStillCollects ==
    [][\A t \in Tasks :
          /\ (pc[t] = "build" /\ pc'[t] # "build") => pc'[t] = "compress"
          /\ (Reports(t) /\ error[t] /\ result[t] = "Ok") =>
                LET dir == assets[request[t].build_id]
                    gz == {f \in dir.files : f.name = <<"build", "log", "gz">>}
                IN  /\ SubSeq(trace[t], Len(trace[t]) - 3, Len(trace[t]))
                          = <<"build", "compress", "scan", "teardown">>
                    /\ Message(t)'.kind = "BuildFailed"
                    /\ \E f \in gz :
                          /\ LogCollectable(request[t].build_id, f.data)
                                \in Message(t)'.collectables
                          /\ dir.files = {f} =>
                                Message(t)'.collectables
                                   = {LogCollectable(request[t].build_id, f.data)}]_vars

C3_Witness ==
    \E t \in Tasks :
        /\ pc[t] = "report" /\ error[t] /\ result[t] = "Ok"
        /\ \E c \in collectables[t] : c.kind = "Log" /\ collectables[t] = {c}

\* C4: a failure in steps 1-5 ends run() at once: none of builder,
\* compression, scan and teardown runs and the report is BuildFailed with no
\* collectables; a build gets past the sync step only with its mirror in place
C4_EarlyAbort ==
    [][\A t \in Tasks :
          /\ (pc[t] \in EarlyStages /\ result'[t] = "Err") =>
                /\ pc'[t] = "report"
                /\ Ran(t)' \cap LateStages = {}
                /\ collectables'[t] = {}
          /\ (pc[t] = "sync_wait" /\ pc'[t] = "checkout") => mirror_dir[t] \in mirrors'
          /\ (Reports(t) /\ Last(trace[t]) \in EarlyStages) =>
                /\ result[t] = "Err"
                /\ Ran(t) \cap LateStages = {}
                /\ Message(t)' = [kind |-> "BuildFailed",
                                  task_id |-> request[t].build_id,
                                  collectables |-> {}]]_vars

C4_Witness ==
    \E t \in Tasks : pc[t] = "report" /\ Last(trace[t]) = "checkout" /\ result[t] = "Err"

\* the collectable scan_collectables builds for file f of build b
Expected(b, f) ==
    [kind |-> Kind(f.name), uri |-> <<HostAddress, "assets", b, f.name>>,
     sha256sum |-> Sha256(f.data)]

\* C5 as stated: the BuildSucceeded report holds one collectable for every
\* file in asset_dir at completion
C5_AllFilesCollected ==
    \A t \in Tasks :
        (pc[t] = "done" /\ Message(t).kind = "BuildSucceeded") =>
            Message(t).collectables
                = {Expected(request[t].build_id, f) :
                      f \in assets[request[t].build_id].files}

\* C5 amended: the BuildSucceeded report holds one collectable for every
\* file in asset_dir at completion whose name is valid UTF-8, and none for
\* any other; build.log.gz is reported and the plain build.log is not
C5_TextFilesCollected ==
    \A t \in Tasks :
        (pc[t] = "done" /\ Message(t).kind = "BuildSucceeded") =>
            LET b == request[t].build_id
                text == {f \in assets[b].files :
                            \A i \in 1..Len(f.name) : f.name[i] # NonText}
            IN  /\ Message(t).collectables = {Expected(b, f) : f \in text}
                /\ \E c \in Message(t).collectables : c.uri[4] = <<"build", "log", "gz">>
                /\ \A c \in Message(t).collectables : c.uri[4] # <<"build", "log">>

C5_Witness ==
    \E t \in Tasks :
        /\ pc[t] = "done" /\ Message(t).kind = "BuildSucceeded"
        /\ \E c \in Message(t).collectables : c.kind = "Package"
        /\ Cardinality(Message(t).collectables) = 2

Running(t) == pc[t] \notin {"idle", "report", "done"}

\* two builds with distinct build ids on distinct repositories, t taking a step
Concurrent(t, u) ==
    /\ t # u /\ Running(t) /\ Running(u) /\ pc'[t] # pc[t]
    /\ request[t].build_id # request[u].build_id
    /\ request[t].uri # request[u].uri

BadUri(u) == u = <<>> \/ u[1] # "/" \/ \E i \in 1..Len(u) : u[i] = " "

\* C7: with such a uri run() fails in its first step: nothing on the file
\* system changes, no later stage runs, the report is BuildFailed, empty
C7_BadUriNoMutation ==
    [][\A t \in Tasks :
          /\ (pc[t] = "resolve" /\ BadUri(request[t].uri) /\ pc'[t] # pc[t]) =>
                /\ pc'[t] = "report" /\ result'[t] = "Err"
                /\ trace'[t] = <<"resolve">>
                /\ fsVars' = fsVars
          /\ (Reports(t) /\ trace[t] = <<"resolve">>) =>
                Message(t)' = [kind |-> "BuildFailed",
                               task_id |-> request[t].build_id,
                               collectables |-> {}]]_vars

C7_Witness ==
    \E t \in Tasks : /\ pc[t] = "report" /\ trace[t] = <<"resolve">>
                     /\ request[t].uri = <<"a">> /\ result[t] = "Err"

\* C8 as stated: a BuildFailed report after an error at worktree teardown
\* carries the collectables the scan had produced
C8_TeardownErrorKeepsCollectables ==
    \A t \in Tasks :
        (pc[t] = "report" /\ result[t] = "Err" /\ Last(trace[t]) = "teardown") =>
            Outcome(t).collectables = collectables[t]

\* C8 amended: whenever run() returns Err, at worktree teardown as well, the
\* BuildFailed report carries no collectables; a BuildFailed report carries
\* the scanned collectables only for a captured builder error with Ok
C8_ErrReportsEmpty ==
    [][\A t \in Tasks : Reports(t) =>
          /\ result[t] = "Err" =>
                Message(t)'.kind = "BuildFailed" /\ Message(t)'.collectables = {}
          /\ (result[t] = "Ok" /\ error[t]) =>
                /\ Message(t)'.kind = "BuildFailed"
                /\ Message(t)'.collectables = collectables[t]]_vars

C8_Witness ==
    \E t \in Tasks : /\ pc[t] = "report" /\ result[t] = "Err"
                     /\ Last(trace[t]) = "teardown" /\ collectables[t] # {}

\* C9: a failed log compression ends run() whether or not the builder
\* succeeded: scan and teardown do not run and the report is BuildFailed
\* with no collectables; the scan starts only with build.log.gz in place
C9_CompressFailureAborts ==
    [][\A t \in Tasks :
          /\ (pc[t] = "compress" /\ pc'[t] # pc[t]) =>
                /\ pc'[t] \in {"scan", "report"}
                /\ pc'[t] = "scan" =>
                      LET names == {f.name : f \in assets'[request[t].build_id].files}
                      IN  <<"build", "log", "gz">> \in names /\ <<"build", "log">> \notin names
          /\ (Reports(t) /\ Last(trace[t]) = "compress") =>
                /\ result[t] = "Err"
                /\ Message(t)' = [kind |-> "BuildFailed",
                                  task_id |-> request[t].build_id,
                                  collectables |-> {}]]_vars

C9_Witness ==
    \E t \in Tasks :
        /\ pc[t] = "report" /\ Last(trace[t]) = "compress" /\ ~error[t]
        /\ \E f \in assets[request[t].build_id].files : f.name = <<"pkg", "stone">>

\* C10: in lock order, the first remove(k) after an insert(k, v) returns v,
\* every remove(k) with no insert(k, _) since the previous remove(k) or since
\* the start returns None, and a removed key is absent from the map
NoInsertBetween(k, i, j) ==
    \A x \in (i + 1)..(j - 1) : ~(hist[x].op = "insert" /\ hist[x].key = k)
NoOpBetween(k, i, j) == \A x \in (i + 1)..(j - 1) : hist[x].key # k

C10_RemoveAtomic ==
    \A j \in 1..Len(hist) : hist[j].op = "remove" =>
        LET k == hist[j].key
        IN  /\ \A i \in 1..(j - 1) :
                  (hist[i].key = k /\ NoOpBetween(k, i, j)) =>
                      hist[j].value = IF hist[i].op = "insert" THEN hist[i].value ELSE None
            /\ (\A i \in 1..(j - 1) : hist[i].key # k) => hist[j].value = None
            /\ NoInsertBetween(k, j, Len(hist) + 1) => map[k] = None

C10_Witness ==
    \E i, j, l \in 1..Len(hist) :
        /\ i < j /\ j < l
        /\ hist[i].op = "insert" /\ hist[j].op = "remove" /\ hist[l].op = "remove"
        /\ hist[i].key = hist[j].key /\ hist[j].key = hist[l].key
        /\ hist[j].by # hist[l].by
        /\ hist[j].value = hist[i].value /\ hist[l].value = None
        /\ mpc[hist[j].by] = "idle" /\ mpc[hist[l].by] = "idle"

\* the value of the latest insert(k, _) among the first n operations that no
\* later remove(k) among them has taken, None when there is none
Stored(k, n) ==
    LET on == {i \in 1..n : hist[i].key = k}
    IN  IF on = {} THEN None
        ELSE LET last == CHOOSE i \in on : \A j \in on : j <= i
             IN  IF hist[last].op = "insert" THEN hist[last].value ELSE None

\* C11: in lock order an insert(k, v) overwrites the value of k and touches
\* no other key: the map holds for every key the value of its latest insert
\* not yet removed, and every remove(k) returned exactly that value
C11_InsertOverwrites ==
    /\ \A k \in Keys : map[k] = Stored(k, Len(hist))
    /\ \A j \in 1..Len(hist) :
          hist[j].op = "remove" => hist[j].value = Stored(hist[j].key, j - 1)

C11_Witness ==
    \E i, j, l \in 1..Len(hist) :
        /\ i < j /\ j < l
        /\ hist[i].op = "insert" /\ hist[j].op = "insert" /\ hist[l].op = "remove"
        /\ hist[i].key = hist[j].key /\ hist[j].key = hist[l].key
        /\ hist[i].value # hist[j].value
        /\ \A x \in (i + 1)..(l - 1) : x # j => hist[x].key # hist[i].key
        /\ hist[l].value = hist[j].value
        /\ \E k \in Keys : k # hist[i].key /\ map[k] # None

\* C12: a build hands the client one outcome message and no more; when the
\* delivery fails nothing is sent again and nothing is written anywhere, the
\* only thing build() does afterwards is return
C12_SingleDeliveryAttempt ==
    [][\A t \in Tasks :
          /\ Len(sent'[t]) <= 1
          /\ sent'[t] # sent[t] =>
                \/ Reports(t) /\ sent[t] = <<>>
                \/ pc[t] = "done" /\ pc'[t] = "idle" /\ sent'[t] = <<>>
          /\ Reports(t) => fsVars' = fsVars /\ status'[t] \in {"Ok", "Err"}
          /\ (pc[t] = "done" /\ status[t] = "Err" /\ pc'[t] # pc[t]) =>
                /\ pc'[t] = "idle"
                /\ fsVars' = fsVars
                /\ started' = started]_vars

C12_Witness ==
    \E t \in Tasks : pc[t] = "done" /\ status[t] = "Err" /\ Len(sent[t]) = 1

\* --------------------------------------------- classification on its own
\* file names of up to MaxNameLen dot-separated components
MaxNameLen == 3
NameParts == {"a", "bin", "jsonc", "log", "gz", "stone"}
KindNames == UNION {[1..n -> NameParts] : n \in 1..MaxNameLen}

\* a build about to scan an asset_dir that holds the compressed log and one
\* more file of any of these names
InitKind ==
    /\ InitMap
    /\ \E b \in BuildIds, n \in KindNames, d \in Contents :
          /\ request = [t \in Tasks |-> IF t = 1 THEN [build_id |-> b, uri |-> <<"/", "a">>]
                                        ELSE NoRequest]
          /\ assets = [x \in BuildIds |->
                          IF x = b
                          THEN WithFile(WithFile(EmptyDir, GzName(LogName), Gz(d)), n, d)
                          ELSE NoDir]
          /\ work = [exists |-> TRUE, source |-> TRUE, checkout |-> b, config |-> b]
          /\ regs = {[mirror |-> <<"a">>, owner |-> b]}
    /\ pc = [t \in Tasks |-> IF t = 1 THEN "scan" ELSE "idle"]
    /\ mirror_dir = [t \in Tasks |-> IF t = 1 THEN <<"a">> ELSE <<>>]
    /\ error = [t \in Tasks |-> FALSE]
    /\ collectables = [t \in Tasks |-> {}]
    /\ result = [t \in Tasks |-> "pending"]
    /\ git_op = [t \in Tasks |-> IF t = 1 THEN "mirror" ELSE "none"]
    /\ sent = [t \in Tasks |-> <<>>]
    /\ status = [t \in Tasks |-> "none"]
    /\ trace = [t \in Tasks |-> IF t = 1 THEN SubSeq(AllStages, 1, 11) ELSE <<>>]
    /\ started = 1
    /\ cache = {<<>>, <<"a">>}
    /\ mirrors = {<<"a">>}

NextKind == \E t \in Tasks : Scan(t)

SpecKind == InitKind /\ [][NextKind]_vars

\* the kind the suffix table gives a name
SuffixKind(name) ==
    LET n == Len(name)
    IN  CASE n >= 2 /\ name[n] = "bin" -> "BinaryManifest"
          [] n >= 2 /\ name[n] = "jsonc" -> "JsonManifest"
          [] n >= 3 /\ name[n] = "gz" /\ name[n - 1] = "log" -> "Log"
          [] n >= 2 /\ name[n] = "stone" -> "Package"
          [] OTHER -> "Unknown"

\* C13: every scanned file gets the kind of its suffix (.bin, .jsonc,
\* .log.gz, .stone, else Unknown), whatever its content, the build id and
\* the host address
C13_KindBySuffix ==
    \A t \in Tasks : pc[t] = "teardown" =>
        /\ \A f \in assets[request[t].build_id].files :
              \E c \in collectables[t] : c.uri[4] = f.name
        /\ \A c \in collectables[t] :
              /\ c.kind = SuffixKind(c.uri[4])
              /\ \A b \in BuildIds, h \in {HostAddress, "other/"}, d \in 0..2 :
                    MkCollectable(b, h, [name |-> c.uri[4], data |-> d]).kind = c.kind

C13_Witness ==
    \E t \in Tasks :
        /\ pc[t] = "teardown"
        /\ \E c \in collectables[t] : c.kind = "Unknown" /\ Last(c.uri[4]) = "gz"
        /\ \E c \in collectables[t] : c.kind = "Log"

\* C14: no step of any build, on any exit path, removes a mirror: a mirror
\* directory that exists below cache_dir exists in every later state
C14_MirrorsPersist ==
    [][\A m \in mirrors : m \in mirrors' /\ m \in cache']_vars

C14_Witness ==
    \E t \in Tasks :
        /\ pc[t] = "report" /\ result[t] = "Err"
        /\ git_op[t] = "remote_update" /\ mirror_dir[t] \in mirrors
        /\ Last(trace[t]) \in {"sync_wait", "compress", "teardown"}

\* ------------------------------------------------ builds one after another
\* a build is started only when no other build is running
NextSeq == \E t \in Tasks : (Start(t) /\ \A u \in Tasks : pc[u] = "idle") \/ Step(t)

SpecSeq == Init /\ [][NextSeq]_vars

\* C15: with builds run one after another, a build at the sync step finds
\* work_dir holding only the empty source/ directory and its asset_dir empty,
\* whatever earlier builds left there; recreate_dir gives an empty directory
\* from any directory or none, and again when applied to its own result
C15_FreshDirsAtSync ==
    \A t \in Tasks : pc[t] = "sync" =>
        /\ work = [exists |-> TRUE, source |-> TRUE, checkout |-> 0, config |-> 0]
        /\ assets[request[t].build_id] = [exists |-> TRUE, files |-> {}]
        /\ \A b \in BuildIds :
              /\ RecreateDir(assets[b]) = [exists |-> TRUE, files |-> {}]
              /\ RecreateDir(RecreateDir(assets[b])) = [exists |-> TRUE, files |-> {}]

\* a second build of the same build id at the sync step, the first one having
\* ended without removing its worktree
C15_Witness ==
    \E t \in Tasks :
        /\ pc[t] = "sync" /\ started = 2 /\ request[t].build_id = 1
        /\ regs # {}

Names(dir) == {f.name : f \in dir.files}
Prepared(t) ==
    pc[t] \notin {"idle", "resolve", "mirror_parent", "work_dir", "worktree_dir",
                  "asset_dir"}

\* C16: once a build has prepared its asset_dir, no step of it removes the
\* directory or a file in it, except that a successful compression replaces
\* build.log by build.log.gz; and no step of a build touches the asset_dir
\* of another build id
C16_AssetDirSurvives ==
    [][\A t \in Tasks : pc'[t] # pc[t] =>
          /\ \A b \in BuildIds \ {request[t].build_id} : assets'[b] = assets[b]
          /\ Prepared(t) =>
                LET old == assets[request[t].build_id]
                    new == assets'[request[t].build_id]
                IN  /\ old.exists => new.exists
                    /\ Names(old) \ {<<"build", "log">>} \subseteq Names(new)
                    /\ (<<"build", "log">> \in Names(old) \ Names(new)) =>
                          /\ pc[t] = "compress" /\ pc'[t] = "scan"
                          /\ <<"build", "log", "gz">> \in Names(new)]_vars

C16_Witness ==
    \E t \in Tasks :
        /\ pc[t] = "done" /\ Message(t).kind = "BuildFailed"
        /\ {<<"pkg", "stone">>, <<"build", "log", "gz">>}
              \subseteq Names(assets[request[t].build_id])
        /\ \E b \in BuildIds \ {request[t].build_id} :
              <<"pkg", "stone">> \in Names(assets[b])

\* C17: the stages of a build run in the one fixed order, each after the
\* previous one has completed, and the outcome message is sent only after
\* run() has returned, with every stage done when it returned Ok
C17_StagesInOrder ==
    [][\A t \in Tasks :
          /\ trace'[t] = SubSeq(AllStages, 1, Len(trace'[t]))
          /\ (trace'[t] # trace[t] /\ trace'[t] # <<>>) =>
                /\ trace'[t] = Append(trace[t], pc[t])
                /\ pc[t] = AllStages[Len(trace[t]) + 1]
          /\ (pc'[t] # pc[t] /\ pc'[t] \in Ran(t)' \cup {"idle", "done"}) =>
                pc'[t] \in {"idle", "done"}
          /\ Len(sent'[t]) > Len(sent[t]) =>
                /\ pc[t] = "report" /\ result[t] \in {"Ok", "Err"}
                /\ result[t] = "Ok" => trace[t] = AllStages]_vars

C17_Witness ==
    \E t \in Tasks : pc[t] = "report" /\ result[t] = "Ok" /\ trace[t] = AllStages

\* C18: at the sync step a build launches exactly one git command:
\* remote_update if mirror_dir exists at that moment, mirror if not, so a
\* mirror made by an earlier build is updated, never cloned again; when the
\* command fails the build ends before checkout
C18_UpdateOrMirror ==
    [][\A t \in Tasks :
          /\ (pc[t] = "sync" /\ pc'[t] # pc[t]) =>
                /\ pc'[t] = "sync_wait"
                /\ git_op[t] = "none"
                /\ git_op'[t] = "remote_update" <=> mirror_dir[t] \in cache
                /\ git_op'[t] = "mirror" <=> mirror_dir[t] \notin cache
                /\ mirror_dir[t] \in mirrors => git_op'[t] = "remote_update"
                /\ fsVars' = fsVars
          /\ (pc[t] = "sync_wait" /\ pc'[t] # pc[t]) =>
                /\ git_op'[t] = git_op[t]
                /\ pc'[t] \in {"checkout", "report"}
                /\ pc'[t] = "checkout" => mirror_dir[t] \in mirrors'
                /\ pc'[t] = "report" => result'[t] = "Err" /\ "checkout" \notin Ran(t)'
                /\ git_op[t] = "remote_update" => mirrors' = mirrors /\ cache' = cache
          /\ pc[t] \in {"checkout", "config", "build", "compress", "scan", "teardown"} =>
                git_op'[t] = git_op[t]]_vars

\* a second build of a repository an earlier build has mirrored
C18_Witness ==
    \E t \in Tasks :
        /\ pc[t] = "checkout" /\ git_op[t] = "remote_update" /\ started = 2
        /\ mirror_dir[t] \in mirrors
        /\ \A u \in Tasks \ {t} : pc[u] = "idle"

\* C19: nothing makes a build wait at the create-or-update decision: the
\* sync step of a build can always be taken, also while another build has a
\* git command running on the same mirror_dir; two builds can so both find
\* the directory absent and both clone into it
C19_NoLockAtSync ==
    \A t \in Tasks : pc[t] = "sync" => ENABLED SyncCheck(t)

\* both builds have launched git::mirror on the same, still absent, directory
C19_Witness ==
    /\ pc[1] = "sync_wait" /\ pc[2] = "sync_wait"
    /\ git_op[1] = "mirror" /\ git_op[2] = "mirror"
    /\ mirror_dir[1] = mirror_dir[2]
    /\ mirror_dir[1] \notin cache

\* C20: when a build whose checkout succeeded reports its outcome, the
\* worktree registration it created is no longer in the mirror
C20_WorktreeRemoved ==
    \A t \in Tasks :
        (pc[t] = "report" /\ "config" \in Ran(t)) =>
            [mirror |-> mirror_dir[t], owner |-> request[t].build_id] \notin regs

====
